---- MODULE Spec2Model ----
(***************************************************************************)
(* A model of the mop terminal dashboard core:                             *)
(*   - LineEditor (src/line_editor.go): the single-line editor that adds   *)
(*     and removes tickers, with its terminal side effects;                *)
(*   - Market (src/unnamed/part_000): the market-indicator fetch/decode.   *)
(* Strings are sequences of bytes (Go strings), runes are code points.     *)
(***************************************************************************)
EXTENDS Integers, Sequences, FiniteSets, TLC

VARIABLES
    mode,       \* "Idle" (no LineEditor exists) or "Capturing"
    command,    \* LineEditor.command (rune; 0 is the zero value)
    prompt,     \* LineEditor.prompt
    cursor,     \* LineEditor.cursor
    input,      \* LineEditor.input, a sequence of bytes
    ops,        \* Screen/termbox/Quotes calls made by the last handler, in order
    term,       \* termbox cursor position <<x, y>>; <<-1, -1>> when hidden
    tickers,    \* quotes.profile.Tickers, a sequence of byte strings
    lastKey,    \* the last event's key if it is Enter or Escape, else "other"
    ret,        \* what the last call of Handle returned
    sessions,   \* number of edit sessions started so far
    typed,      \* history: [only, runes], the runes inserted in this session while
                \* every event of it was a character or Space (only = TRUE)
    market,     \* the indicator maps of Market, by field name
    errors,     \* Market.errors
    fetchRet,   \* what the last Fetch returned: "market", "nil"; "none" before
    escaped,    \* whether a panic of the last Fetch reached its caller
    failure,    \* why the last Fetch panicked; "none" when it did not
    fetches     \* number of Fetch calls so far

mvars == <<market, errors, fetchRet, escaped, failure, fetches>>

edvars == <<mode, command, prompt, cursor, input, ops, term, tickers, lastKey, ret, sessions,
            typed>>

vars == <<edvars, mvars>>

\* ------------------------------------------------------------------ bounds
\* Longest input buffer (in bytes) the model types.
MaxLen == 4
\* Number of edit sessions (start .. Enter/Escape) in one behaviour.
MaxSessions == 2
\* Number of Fetch calls in one behaviour.
MaxFetches == 2

\* ------------------------------------------------------------ byte strings
\* Runes the keyboard delivers in ev.Ch: 'a' and ','.
Printable == {97, 44}

\* The same with a rune whose encoding takes two bytes: 'a' and U+00E9.
WidePrintable == {97, 233}

\* Keys that reach the default branch of Handle with ev.Ch = 0.
OtherKeys == {"KeyTab"}

\* string(ch): the UTF-8 encoding of a rune (U+FFFD for an invalid one).
EncodeRune(r) ==
    IF r < 0 \/ r > 1114111 \/ (r >= 55296 /\ r <= 57343) THEN <<239, 191, 189>>
    ELSE IF r < 128 THEN <<r>>
    ELSE IF r < 2048 THEN <<192 + (r \div 64), 128 + (r % 64)>>
    ELSE IF r < 65536 THEN <<224 + (r \div 4096), 128 + ((r \div 64) % 64), 128 + (r % 64)>>
    ELSE <<240 + (r \div 262144), 128 + ((r \div 4096) % 64),
           128 + ((r \div 64) % 64), 128 + (r % 64)>>

IsCont(b) == b >= 128 /\ b <= 191

\* The U+FFFD of width 1 that the decoders give for an invalid encoding.
RuneError1 == [r |-> 65533, w |-> 1]

\* The decoder of utf8.DecodeRuneInString on the string s of n bytes whose
\* first byte is b: [r |-> rune, w |-> width]. An invalid or truncated
\* encoding (an overlong form, a surrogate and a value above U+10FFFF
\* included) decodes to U+FFFD with width 1.
DecodeLead(s, b, n) ==
    IF b < 128 THEN [r |-> b, w |-> 1]
    ELSE IF b >= 194 /\ b <= 223 /\ n >= 2 /\ IsCont(s[2])
        THEN [r |-> (b - 192) * 64 + (s[2] - 128), w |-> 2]
    ELSE IF b >= 224 /\ b <= 239 /\ n >= 3 /\ IsCont(s[2]) /\ IsCont(s[3])
            /\ (b = 224 => s[2] >= 160) /\ (b = 237 => s[2] <= 159)
        THEN [r |-> (b - 224) * 4096 + (s[2] - 128) * 64 + (s[3] - 128), w |-> 3]
    ELSE IF b >= 240 /\ b <= 244 /\ n >= 4
            /\ IsCont(s[2]) /\ IsCont(s[3]) /\ IsCont(s[4])
            /\ (b = 240 => s[2] >= 144) /\ (b = 244 => s[2] <= 143)
        THEN [r |-> (b - 240) * 262144 + (s[2] - 128) * 4096
                      + (s[3] - 128) * 64 + (s[4] - 128),
              w |-> 4]
    ELSE RuneError1

\* utf8.DecodeRuneInString on a non-empty byte string.
DecodeRune(s) == DecodeLead(s, s[1], Len(s))

\* Where utf8.DecodeLastRuneInString starts to decode (0-based): it steps back
\* from the byte before the last, not below lim, to a byte that starts a rune.
RECURSIVE LastRuneStart(_, _, _)
LastRuneStart(s, start, lim) ==
    IF start < lim THEN (IF start < 0 THEN 0 ELSE start)
    ELSE IF ~IsCont(s[start + 1]) THEN start
    ELSE LastRuneStart(s, start - 1, lim)

\* The end of utf8.DecodeLastRuneInString: the rune d decoded from the start
\* found counts only if it reaches the end of the string, n bytes further.
WholeOrError(d, n) == IF d.w # n THEN RuneError1 ELSE d

\* utf8.DecodeLastRuneInString from the 0-based offset start on.
DecodeFrom(s, start) == WholeOrError(DecodeRune(SubSeq(s, start + 1, Len(s))), Len(s) - start)

\* utf8.DecodeLastRuneInString on a non-empty byte string: [r, w].
DecodeLastRune(s) ==
    IF s[Len(s)] < 128 THEN [r |-> s[Len(s)], w |-> 1]
    ELSE DecodeFrom(s, LastRuneStart(s, Len(s) - 2, IF Len(s) < 4 THEN 0 ELSE Len(s) - 4))

\* The runes above ASCII with an upper case of their own, as the case tables of
\* package unicode give them: <<lo, hi, stride, delta>> maps every stride-th
\* rune from lo to hi to itself plus delta.
UpperRanges ==
    <<<<181, 181, 1, 743>>, <<224, 246, 1, -32>>, <<248, 254, 1, -32>>, <<255, 255, 1, 121>>,
      <<257, 303, 2, -1>>, <<305, 305, 1, -232>>, <<307, 311, 2, -1>>, <<314, 328, 2, -1>>,
      <<331, 375, 2, -1>>, <<378, 382, 2, -1>>, <<383, 383, 1, -300>>, <<384, 384, 1, 195>>,
      <<387, 389, 2, -1>>, <<392, 392, 1, -1>>, <<396, 396, 1, -1>>, <<402, 402, 1, -1>>,
      <<405, 405, 1, 97>>, <<409, 409, 1, -1>>, <<410, 410, 1, 163>>, <<414, 414, 1, 130>>,
      <<417, 421, 2, -1>>, <<424, 424, 1, -1>>, <<429, 429, 1, -1>>, <<432, 432, 1, -1>>,
      <<436, 438, 2, -1>>, <<441, 441, 1, -1>>, <<445, 445, 1, -1>>, <<447, 447, 1, 56>>,
      <<453, 453, 1, -1>>, <<454, 454, 1, -2>>, <<456, 456, 1, -1>>, <<457, 457, 1, -2>>,
      <<459, 459, 1, -1>>, <<460, 460, 1, -2>>, <<462, 476, 2, -1>>, <<477, 477, 1, -79>>,
      <<479, 495, 2, -1>>, <<498, 498, 1, -1>>, <<499, 499, 1, -2>>, <<501, 501, 1, -1>>,
      <<505, 543, 2, -1>>, <<547, 563, 2, -1>>, <<572, 572, 1, -1>>, <<575, 576, 1, 10815>>,
      <<578, 578, 1, -1>>, <<583, 591, 2, -1>>, <<592, 592, 1, 10783>>, <<593, 593, 1, 10780>>,
      <<594, 594, 1, 10782>>, <<595, 595, 1, -210>>, <<596, 596, 1, -206>>,
      <<598, 599, 1, -205>>, <<601, 601, 1, -202>>, <<603, 603, 1, -203>>,
      <<604, 604, 1, 42319>>, <<608, 608, 1, -205>>, <<609, 609, 1, 42315>>,
      <<611, 611, 1, -207>>, <<613, 613, 1, 42280>>, <<614, 614, 1, 42308>>,
      <<616, 616, 1, -209>>, <<617, 617, 1, -211>>, <<618, 618, 1, 42308>>,
      <<619, 619, 1, 10743>>, <<620, 620, 1, 42305>>, <<623, 623, 1, -211>>,
      <<625, 625, 1, 10749>>, <<626, 626, 1, -213>>, <<629, 629, 1, -214>>,
      <<637, 637, 1, 10727>>, <<640, 640, 1, -218>>, <<642, 642, 1, 42307>>,
      <<643, 643, 1, -218>>, <<647, 647, 1, 42282>>, <<648, 648, 1, -218>>,
      <<649, 649, 1, -69>>, <<650, 651, 1, -217>>, <<652, 652, 1, -71>>, <<658, 658, 1, -219>>,
      <<669, 669, 1, 42261>>, <<670, 670, 1, 42258>>, <<837, 837, 1, 84>>, <<881, 883, 2, -1>>,
      <<887, 887, 1, -1>>, <<891, 893, 1, 130>>, <<940, 940, 1, -38>>, <<941, 943, 1, -37>>,
      <<945, 961, 1, -32>>, <<962, 962, 1, -31>>, <<963, 971, 1, -32>>, <<972, 972, 1, -64>>,
      <<973, 974, 1, -63>>, <<976, 976, 1, -62>>, <<977, 977, 1, -57>>, <<981, 981, 1, -47>>,
      <<982, 982, 1, -54>>, <<983, 983, 1, -8>>, <<985, 1007, 2, -1>>, <<1008, 1008, 1, -86>>,
      <<1009, 1009, 1, -80>>, <<1010, 1010, 1, 7>>, <<1011, 1011, 1, -116>>,
      <<1013, 1013, 1, -96>>, <<1016, 1016, 1, -1>>, <<1019, 1019, 1, -1>>,
      <<1072, 1103, 1, -32>>, <<1104, 1119, 1, -80>>, <<1121, 1153, 2, -1>>,
      <<1163, 1215, 2, -1>>, <<1218, 1230, 2, -1>>, <<1231, 1231, 1, -15>>,
      <<1233, 1327, 2, -1>>, <<1377, 1414, 1, -48>>, <<4304, 4346, 1, 3008>>,
      <<4349, 4351, 1, 3008>>, <<5112, 5117, 1, -8>>, <<7296, 7296, 1, -6254>>,
      <<7297, 7297, 1, -6253>>, <<7298, 7298, 1, -6244>>, <<7299, 7300, 1, -6242>>,
      <<7301, 7301, 1, -6243>>, <<7302, 7302, 1, -6236>>, <<7303, 7303, 1, -6181>>,
      <<7304, 7304, 1, 35266>>, <<7545, 7545, 1, 35332>>, <<7549, 7549, 1, 3814>>,
      <<7566, 7566, 1, 35384>>, <<7681, 7829, 2, -1>>, <<7835, 7835, 1, -59>>,
      <<7841, 7935, 2, -1>>, <<7936, 7943, 1, 8>>, <<7952, 7957, 1, 8>>, <<7968, 7975, 1, 8>>,
      <<7984, 7991, 1, 8>>, <<8000, 8005, 1, 8>>, <<8017, 8023, 2, 8>>, <<8032, 8039, 1, 8>>,
      <<8048, 8049, 1, 74>>, <<8050, 8053, 1, 86>>, <<8054, 8055, 1, 100>>,
      <<8056, 8057, 1, 128>>, <<8058, 8059, 1, 112>>, <<8060, 8061, 1, 126>>,
      <<8064, 8071, 1, 8>>, <<8080, 8087, 1, 8>>, <<8096, 8103, 1, 8>>, <<8112, 8113, 1, 8>>,
      <<8115, 8115, 1, 9>>, <<8126, 8126, 1, -7205>>, <<8131, 8131, 1, 9>>,
      <<8144, 8145, 1, 8>>, <<8160, 8161, 1, 8>>, <<8165, 8165, 1, 7>>, <<8179, 8179, 1, 9>>,
      <<8526, 8526, 1, -28>>, <<8560, 8575, 1, -16>>, <<8580, 8580, 1, -1>>,
      <<9424, 9449, 1, -26>>, <<11312, 11359, 1, -48>>, <<11361, 11361, 1, -1>>,
      <<11365, 11365, 1, -10795>>, <<11366, 11366, 1, -10792>>, <<11368, 11372, 2, -1>>,
      <<11379, 11379, 1, -1>>, <<11382, 11382, 1, -1>>, <<11393, 11491, 2, -1>>,
      <<11500, 11502, 2, -1>>, <<11507, 11507, 1, -1>>, <<11520, 11557, 1, -7264>>,
      <<11559, 11559, 1, -7264>>, <<11565, 11565, 1, -7264>>, <<42561, 42605, 2, -1>>,
      <<42625, 42651, 2, -1>>, <<42787, 42799, 2, -1>>, <<42803, 42863, 2, -1>>,
      <<42874, 42876, 2, -1>>, <<42879, 42887, 2, -1>>, <<42892, 42892, 1, -1>>,
      <<42897, 42899, 2, -1>>, <<42900, 42900, 1, 48>>, <<42903, 42921, 2, -1>>,
      <<42933, 42947, 2, -1>>, <<42952, 42954, 2, -1>>, <<42961, 42961, 1, -1>>,
      <<42967, 42969, 2, -1>>, <<42998, 42998, 1, -1>>, <<43859, 43859, 1, -928>>,
      <<43888, 43967, 1, -38864>>, <<65345, 65370, 1, -32>>, <<66600, 66639, 1, -40>>,
      <<66776, 66811, 1, -40>>, <<66967, 66977, 1, -39>>, <<66979, 66993, 1, -39>>,
      <<66995, 67001, 1, -39>>, <<67003, 67004, 1, -39>>, <<68800, 68850, 1, -64>>,
      <<71872, 71903, 1, -32>>, <<93792, 93823, 1, -32>>, <<125218, 125251, 1, -34>>>>

\* The delta the range e of a case table gives the rune r, which lies between
\* its ends: 0 when the stride of the range skips r.
DeltaIn(e, r) == IF (r - e[1]) % e[3] = 0 THEN e[4] ELSE 0

\* The binary search of unicode.to over the ranges lo..hi of the table tbl (they
\* are sorted and do not overlap): the delta for r, 0 when no range holds it.
\* UpperProbe looks at the range in the middle, m.
RECURSIVE UpperDelta(_, _, _, _)
UpperProbe(r, tbl, lo, hi, m) ==
    IF r < tbl[m][1] THEN UpperDelta(r, tbl, lo, m - 1)
    ELSE IF r > tbl[m][2] THEN UpperDelta(r, tbl, m + 1, hi)
    ELSE DeltaIn(tbl[m], r)

UpperDelta(r, tbl, lo, hi) ==
    IF lo > hi THEN 0 ELSE UpperProbe(r, tbl, lo, hi, (lo + hi) \div 2)

\* unicode.ToUpper
UnicodeToUpper(r) ==
    IF r < 128 THEN (IF r >= 97 /\ r <= 122 THEN r - 32 ELSE r)
    ELSE r + UpperDelta(r, UpperRanges, 1, Len(UpperRanges))

\* strings.ToUpper: every rune mapped by unicode.ToUpper and re-encoded; an
\* invalid byte is replaced by the encoding of U+FFFD.
\* ToUpperRune goes on after the first rune d of s.
RECURSIVE ToUpper(_)
ToUpperRune(s, d) == EncodeRune(UnicodeToUpper(d.r)) \o ToUpper(SubSeq(s, d.w + 1, Len(s)))

ToUpper(s) == IF s = <<>> THEN <<>> ELSE ToUpperRune(s, DecodeRune(s))

\* unicode.IsSpace on a rune: '\t' '\n' '\v' '\f' '\r' ' ', U+0085 and U+00A0,
\* and above Latin-1 the runes of the White_Space property.
IsSpace(r) ==
    \/ r \in {9, 10, 11, 12, 13, 32, 133, 160}
    \/ r \in {5760, 8232, 8233, 8239, 8287, 12288}
    \/ (r >= 8192 /\ r <= 8202)

\* strings.TrimLeftFunc(s, unicode.IsSpace): leading runes, decoded one by one;
\* TrimLeftRune goes on after the first rune d of s.
RECURSIVE TrimLeft(_)
TrimLeftRune(s, d) == IF IsSpace(d.r) THEN TrimLeft(SubSeq(s, d.w + 1, Len(s))) ELSE s

TrimLeft(s) == IF s = <<>> THEN s ELSE TrimLeftRune(s, DecodeRune(s))

\* strings.TrimRightFunc(s, unicode.IsSpace): trailing runes, decoded from the
\* end; TrimRightRune goes on after the last rune d of s.
RECURSIVE TrimRight(_)
TrimRightRune(s, d) == IF IsSpace(d.r) THEN TrimRight(SubSeq(s, 1, Len(s) - d.w)) ELSE s

TrimRight(s) == IF s = <<>> THEN s ELSE TrimRightRune(s, DecodeLastRune(s))

\* strings.TrimSpace
TrimSpace(s) == TrimRight(TrimLeft(s))

\* The character class [,\s] of the regular expression (RE2: \s is [\t\n\f\r ]).
IsSeparator(b) == b \in {44, 9, 10, 12, 13, 32}

\* End (exclusive, 0-based) of the leftmost-longest match of [,\s]+ starting at
\* 0-based offset i, where s[i+1] is a separator.
RECURSIVE MatchEnd(_, _)
MatchEnd(s, i) ==
    IF i < Len(s) /\ IsSeparator(s[i + 1]) THEN MatchEnd(s, i + 1) ELSE i

\* regexp.FindAllStringIndex(s, -1) for [,\s]+ : the matches <<begin, end>>
\* (0-based, end exclusive) from offset i on, left to right.
RECURSIVE FindAll(_, _)
FindAll(s, i) ==
    IF i >= Len(s) THEN <<>>
    ELSE IF IsSeparator(s[i + 1])
        THEN <<<<i, MatchEnd(s, i)>>>> \o FindAll(s, MatchEnd(s, i))
    ELSE FindAll(s, i + 1)

\* The loop of regexp.Split over the matches: [strings, beg, end] after it.
RECURSIVE SplitLoop(_, _, _)
SplitLoop(s, matches, acc) ==
    IF matches = <<>> THEN acc
    ELSE LET m == Head(matches)
             strs == IF m[2] # 0
                     THEN Append(acc.strings, SubSeq(s, acc.beg + 1, m[1]))
                     ELSE acc.strings
         IN SplitLoop(s, Tail(matches), [strings |-> strs, beg |-> m[2], end |-> m[1]])

\* regexp.MustCompile(`[,\s]+`).Split(s, -1)
Split(s) ==
    IF Len(s) = 0 THEN << <<>> >>
    ELSE LET r == SplitLoop(s, FindAll(s, 0), [strings |-> <<>>, beg |-> 0, end |-> 0])
         IN IF r.end # Len(s)
            THEN Append(r.strings, SubSeq(s, r.beg + 1, Len(s)))
            ELSE r.strings

\* LineEditor.tokenize
tokenize(s) == Split(ToUpper(TrimSpace(s.input)))

\* ------------------------------------------------------------- TickerSet
\* The ticker list lives in quotes.profile, outside the files modelled here;
\* AddTickers and RemoveTickers follow the specification's TickerSet contract.
Normalize(sym) == ToUpper(TrimSpace(sym))

Contains(ts, sym) == \E i \in 1..Len(ts) : ts[i] = sym

\* TickerSet.Add: normalise, skip empty and already present symbols, append the
\* rest in input order; [tickers, added].
RECURSIVE AddTickers(_, _)
AddTickers(ts, syms) ==
    IF syms = <<>> THEN [tickers |-> ts, added |-> 0]
    ELSE LET sym == Normalize(Head(syms)) IN
         IF sym = <<>> \/ Contains(ts, sym) THEN AddTickers(ts, Tail(syms))
         ELSE LET r == AddTickers(Append(ts, sym), Tail(syms))
              IN [tickers |-> r.tickers, added |-> r.added + 1]

\* TickerSet.Remove: normalise, remove the matching entries keeping the order
\* of the survivors; [tickers, removed].
RECURSIVE RemoveTickers(_, _)
RemoveTickers(ts, syms) ==
    IF syms = <<>> THEN [tickers |-> ts, removed |-> 0]
    ELSE LET sym == Normalize(Head(syms)) IN
         IF Contains(ts, sym)
         THEN LET r == RemoveTickers(SelectSeq(ts, LAMBDA t : t # sym), Tail(syms))
              IN [tickers |-> r.tickers, removed |-> r.removed + 1]
         ELSE RemoveTickers(ts, Tail(syms))

\* ------------------------------------------------------------ LineEditor
\* The methods take and return the record s of everything a handler touches:
\* the LineEditor fields, the call log, the terminal cursor and the tickers.

\* new(LineEditor): the zero value (made by the caller when '+' or '-' is hit).
NewLineEditor == [command |-> 0, prompt |-> "", cursor |-> 0, input |-> <<>>]

\* LineEditor.Initialize stores the screen and quotes pointers only.
Initialize(s) == s

Call(s, op) == [s EXCEPT !.ops = Append(@, op)]

\* termbox.SetCursor(x, y)
SetCursor(s, x, y) == [Call(s, <<"SetCursor", x, y>>) EXCEPT !.term = <<x, y>>]

\* termbox.HideCursor()
HideCursor(s) == [Call(s, <<"HideCursor">>) EXCEPT !.term = <<-1, -1>>]

prompts(c) == IF c = 43 THEN "Add tickers: " ELSE "Remove tickers: "

\* LineEditor.Prompt
Prompt(s, c) ==
    IF c \in {43, 45}
    THEN LET s1 == [s EXCEPT !.prompt = prompts(c), !.command = c]
             s2 == Call(s1, <<"DrawLine", 0, 3, "<white>" \o s1.prompt \o "</>">>)
             s3 == SetCursor(s2, Len(s2.prompt), 3)
         IN Call(s3, <<"Flush">>)
    ELSE s

\* LineEditor.move_left
move_left(s) ==
    IF s.cursor > 0
    THEN SetCursor([s EXCEPT !.cursor = @ - 1], Len(s.prompt) + s.cursor - 1, 3)
    ELSE s

\* move_right letting the cursor step past the end (<= for <).
move_right_past_end(s) ==
    IF s.cursor <= Len(s.input)
    THEN SetCursor([s EXCEPT !.cursor = @ + 1], Len(s.prompt) + s.cursor + 1, 3)
    ELSE s

\* LineEditor.move_right
move_right(s) ==
    IF s.cursor < Len(s.input)
    THEN SetCursor([s EXCEPT !.cursor = @ + 1], Len(s.prompt) + s.cursor + 1, 3)
    ELSE s

\* jump_to_beginning placing the terminal cursor at column 0, under the prompt.
jump_to_column_zero(s) == SetCursor([s EXCEPT !.cursor = 0], 0, 3)

\* LineEditor.jump_to_beginning
jump_to_beginning(s) == SetCursor([s EXCEPT !.cursor = 0], Len(s.prompt) + 0, 3)

\* jump_to_end stopping one short of the end.
jump_before_end(s) ==
    LET c == IF Len(s.input) > 0 THEN Len(s.input) - 1 ELSE 0
    IN SetCursor([s EXCEPT !.cursor = c], Len(s.prompt) + c, 3)

\* LineEditor.jump_to_end
jump_to_end(s) ==
    SetCursor([s EXCEPT !.cursor = Len(s.input)], Len(s.prompt) + Len(s.input), 3)

\* delete_previous_character dropping the last byte wherever the cursor is.
delete_last_character(s) ==
    IF s.cursor > 0
    THEN LET in == SubSeq(s.input, 1, Len(s.input) - 1)
             s1 == [s EXCEPT !.input = in]
         IN move_left(Call(s1, <<"DrawLine", Len(s1.prompt), 3, in \o <<32>>>>))
    ELSE s

\* LineEditor.delete_previous_character
delete_previous_character(s) ==
    IF s.cursor > 0
    THEN LET in == IF s.cursor < Len(s.input)
                   THEN SubSeq(s.input, 1, s.cursor - 1)
                        \o SubSeq(s.input, s.cursor + 1, Len(s.input))
                   ELSE SubSeq(s.input, 1, Len(s.input) - 1)
             s1 == [s EXCEPT !.input = in]
         IN move_left(Call(s1, <<"DrawLine", Len(s1.prompt), 3, in \o <<32>>>>))
    ELSE s

\* insert_character that appends wherever the cursor is.
insert_character_append(s, ch) ==
    LET in == s.input \o EncodeRune(ch)
        s1 == [s EXCEPT !.input = in]
    IN move_right(Call(s1, <<"DrawLine", Len(s1.prompt), 3, in>>))

\* LineEditor.insert_character
insert_character(s, ch) ==
    LET in == IF s.cursor < Len(s.input)
              THEN SubSeq(s.input, 1, s.cursor) \o EncodeRune(ch)
                   \o SubSeq(s.input, s.cursor + 1, Len(s.input))
              ELSE s.input \o EncodeRune(ch)
        s1 == [s EXCEPT !.input = in]
    IN move_right(Call(s1, <<"DrawLine", Len(s1.prompt), 3, in>>))

\* The loop of execute running one step too far (i >= after).
RECURSIVE ClearRowsInclusive(_, _, _)
ClearRowsInclusive(s, i, after) ==
    IF i >= after
    THEN ClearRowsInclusive(Call(s, <<"ClearLine", 0, i + 4>>), i - 1, after)
    ELSE s

\* The loop "for i := before; i > after; i--" of execute.
RECURSIVE ClearRows(_, _, _)
ClearRows(s, i, after) ==
    IF i > after THEN ClearRows(Call(s, <<"ClearLine", 0, i + 4>>), i - 1, after) ELSE s

\* execute redrawing the table after every add, whatever AddTickers reports.
execute_always_draws(s) ==
    IF s.command = 43 THEN
        LET tk == tokenize(s) IN
        IF Len(tk) > 0
        THEN LET r == AddTickers(s.tickers, tk)
                 s1 == [Call(s, <<"AddTickers", tk>>) EXCEPT !.tickers = r.tickers]
             IN Call(s1, <<"Draw">>)
        ELSE s
    ELSE IF s.command = 45 THEN
        LET tk == tokenize(s) IN
        IF Len(tk) > 0
        THEN LET before == Len(s.tickers)
                 r == RemoveTickers(s.tickers, tk)
                 s1 == [Call(s, <<"RemoveTickers", tk>>) EXCEPT !.tickers = r.tickers]
             IN IF r.removed > 0
                THEN LET after == before - r.removed
                         s2 == ClearRows(Call(s1, <<"Draw">>), before, after)
                     IN IF after = 0 THEN Call(s2, <<"ClearLine", 0, 4>>) ELSE s2
                ELSE s1
        ELSE s
    ELSE s

\* LineEditor.execute
execute(s) ==
    IF s.command = 43 THEN
        LET tk == tokenize(s) IN
        IF Len(tk) > 0
        THEN LET r == AddTickers(s.tickers, tk)
                 s1 == [Call(s, <<"AddTickers", tk>>) EXCEPT !.tickers = r.tickers]
             IN IF r.added > 0 THEN Call(s1, <<"Draw">>) ELSE s1
        ELSE s
    ELSE IF s.command = 45 THEN
        LET tk == tokenize(s) IN
        IF Len(tk) > 0
        THEN LET before == Len(s.tickers)
                 r == RemoveTickers(s.tickers, tk)
                 s1 == [Call(s, <<"RemoveTickers", tk>>) EXCEPT !.tickers = r.tickers]
             IN IF r.removed > 0
                THEN LET after == before - r.removed
                         s2 == ClearRows(Call(s1, <<"Draw">>), before, after)
                     IN IF after = 0 THEN Call(s2, <<"ClearLine", 0, 4>>) ELSE s2
                ELSE s1
        ELSE s
    ELSE s

\* LineEditor.done (always returns true)
done(s) == HideCursor(Call(s, <<"ClearLine", 0, 3>>))

\* Handle with Enter clearing the edit row before the command is carried out.
Handle_clear_first(s, ev) ==
    LET r == CASE ev.Key = "KeyEsc" -> [s |-> done(s), ret |-> TRUE]
               [] ev.Key = "KeyEnter" -> [s |-> execute(done(s)), ret |-> TRUE]
               [] ev.Key \in {"KeyBackspace", "KeyBackspace2"} ->
                    [s |-> delete_previous_character(s), ret |-> FALSE]
               [] ev.Key \in {"KeyCtrlB", "KeyArrowLeft"} ->
                    [s |-> move_left(s), ret |-> FALSE]
               [] ev.Key \in {"KeyCtrlF", "KeyArrowRight"} ->
                    [s |-> move_right(s), ret |-> FALSE]
               [] ev.Key = "KeyCtrlA" -> [s |-> jump_to_beginning(s), ret |-> FALSE]
               [] ev.Key = "KeyCtrlE" -> [s |-> jump_to_end(s), ret |-> FALSE]
               [] ev.Key = "KeySpace" -> [s |-> insert_character(s, 32), ret |-> FALSE]
               [] OTHER -> [s |-> IF ev.Ch # 0 THEN insert_character(s, ev.Ch) ELSE s,
                            ret |-> FALSE]
    IN [s |-> Call(r.s, <<"Flush">>), ret |-> r.ret]

\* Handle with Escape carrying the command out before it ends the session.
Handle_esc_commits(s, ev) ==
    LET r == CASE ev.Key \in {"KeyEsc", "KeyEnter"} -> [s |-> done(execute(s)), ret |-> TRUE]
               [] ev.Key \in {"KeyBackspace", "KeyBackspace2"} ->
                    [s |-> delete_previous_character(s), ret |-> FALSE]
               [] ev.Key \in {"KeyCtrlB", "KeyArrowLeft"} ->
                    [s |-> move_left(s), ret |-> FALSE]
               [] ev.Key \in {"KeyCtrlF", "KeyArrowRight"} ->
                    [s |-> move_right(s), ret |-> FALSE]
               [] ev.Key = "KeyCtrlA" -> [s |-> jump_to_beginning(s), ret |-> FALSE]
               [] ev.Key = "KeyCtrlE" -> [s |-> jump_to_end(s), ret |-> FALSE]
               [] ev.Key = "KeySpace" -> [s |-> insert_character(s, 32), ret |-> FALSE]
               [] OTHER -> [s |-> IF ev.Ch # 0 THEN insert_character(s, ev.Ch) ELSE s,
                            ret |-> FALSE]
    IN [s |-> Call(r.s, <<"Flush">>), ret |-> r.ret]

\* LineEditor.Handle on the event ev = [Key, Ch]: [s, ret]. The deferred
\* termbox.Flush runs last on every path.
Handle(s, ev) ==
    LET r == CASE ev.Key = "KeyEsc" -> [s |-> done(s), ret |-> TRUE]
               [] ev.Key = "KeyEnter" -> [s |-> done(execute(s)), ret |-> TRUE]
               [] ev.Key \in {"KeyBackspace", "KeyBackspace2"} ->
                    [s |-> delete_previous_character(s), ret |-> FALSE]
               [] ev.Key \in {"KeyCtrlB", "KeyArrowLeft"} ->
                    [s |-> move_left(s), ret |-> FALSE]
               [] ev.Key \in {"KeyCtrlF", "KeyArrowRight"} ->
                    [s |-> move_right(s), ret |-> FALSE]
               [] ev.Key = "KeyCtrlA" -> [s |-> jump_to_beginning(s), ret |-> FALSE]
               [] ev.Key = "KeyCtrlE" -> [s |-> jump_to_end(s), ret |-> FALSE]
               [] ev.Key = "KeySpace" -> [s |-> insert_character(s, 32), ret |-> FALSE]
               [] OTHER -> [s |-> IF ev.Ch # 0 THEN insert_character(s, ev.Ch) ELSE s,
                            ret |-> FALSE]
    IN [s |-> Call(r.s, <<"Flush">>), ret |-> r.ret]

\* ---------------------------------------------------------------- Market
\* The indicators in the order the Market struct declares them.
SlotsStructOrder ==
    <<"Dow", "Nasdaq", "Sp500", "Btc", "Tokyo", "HongKong", "London", "Frankfurt",
      "Yield", "Silver", "Yen", "Rub", "Gbp", "Euro", "Gold">>

\* The indicator fields of Market, in the order extract assigns them.
Slots == <<"Dow", "Nasdaq", "Sp500", "Btc", "Tokyo", "HongKong", "London", "Frankfurt",
           "Yen", "Rub", "Gbp", "Euro", "Yield", "Silver", "Gold">>

SlotSet == {Slots[i] : i \in 1..Len(Slots)}

\* A Go map with no key (make(map[string]string), or nil: both read the same).
EmptyMap == [k \in {} |-> ""]

\* The symbols NewMarket puts in the request URL, in order.
RequestSymbols ==
    <<"^DJI", "^IXIC", "^GSPC", "BTC-USD", "^N225", "^HSI", "^FTSE", "^GDAXI",
      "JPY=X", "RUB=X", "GBP=X", "EUR=X", "^TNX", "SI=F", "GC=F">>

\* NewMarket: every indicator map empty, errors = ``.
NewMarket == [market |-> [sl \in SlotSet |-> EmptyMap], errors |-> ""]

\* A JSON number is modelled by its value in thousandths (100005 is 100.005).
TwoDigits(n) == IF n < 10 THEN "0" \o ToString(n) ELSE ToString(n)

\* float2Str is defined outside the files modelled here; the specification has
\* it round to two decimals (100.005 gives "100.01") and keep the sign.
float2Str(v) ==
    LET a == IF v < 0 THEN -v ELSE v
        c == (a + 5) \div 10
    IN (IF v < 0 THEN "-" ELSE "") \o ToString(c \div 100) \o "." \o TwoDigits(c % 100)

\* results[position][name].(float64): the number, or the panic it raises.
\* results is the decoded array, each entry a map from field names to
\* [kind, val]; a missing key reads as nil, which is not a float64.
Float64At(results, position, name) ==
    IF position >= Len(results) THEN [panic |-> "index", val |-> 0]
    ELSE LET e == results[position + 1] IN
         IF name \in DOMAIN e /\ e[name].kind = "float64"
         THEN [panic |-> "none", val |-> e[name].val]
         ELSE [panic |-> "assert", val |-> 0]

\* assign: [panic, out]; the fields are read in the order change, price, percent.
assign(results, position, changeAsPercent) ==
    LET chg == Float64At(results, position, "regularMarketChange")
        lat == Float64At(results, position, "regularMarketPrice")
        pct == Float64At(results, position, "regularMarketChangePercent")
    IN IF chg.panic # "none" THEN [panic |-> chg.panic, out |-> EmptyMap]
       ELSE IF lat.panic # "none" THEN [panic |-> lat.panic, out |-> EmptyMap]
       ELSE IF pct.panic # "none" THEN [panic |-> pct.panic, out |-> EmptyMap]
       ELSE IF changeAsPercent
            THEN [panic |-> "none",
                  out |-> [k \in {"change", "latest"} |->
                             IF k = "change" THEN float2Str(pct.val) \o "%"
                             ELSE float2Str(lat.val)]]
            ELSE [panic |-> "none",
                  out |-> [k \in {"change", "latest", "percent"} |->
                             IF k = "change" THEN float2Str(chg.val)
                             ELSE IF k = "latest" THEN float2Str(lat.val)
                             ELSE float2Str(pct.val) \o "%"]]

\* market.Yield[`name`] = `10-year Yield`: a write into the map Yield holds.
SetYieldName(m) == [m EXCEPT !["Yield"] = ("name" :> "10-year Yield") @@ @]

\* The statements of extract after the decode, in order: the assignment of
\* slot i from result entry i-1, with the write of the Yield label just
\* before the assignment of Yield. [market, panic]
RECURSIVE ExtractFrom(_, _, _)
ExtractFrom(m, results, i) ==
    IF i > Len(Slots) THEN [market |-> m, panic |-> "none"]
    ELSE LET m1 == IF Slots[i] = "Yield" THEN SetYieldName(m) ELSE m
             r == assign(results, i - 1, FALSE)
         IN IF r.panic # "none" THEN [market |-> m1, panic |-> r.panic]
            ELSE ExtractFrom([m1 EXCEPT ![Slots[i]] = r.out], results, i + 1)

\* Market.extract on a body [valid, result]: valid says json.Unmarshal accepts
\* it, result is d["quoteResponse"]["result"] (empty when a key is missing).
extract(m, body) ==
    IF ~body.valid THEN [market |-> m, panic |-> "json"]
    ELSE ExtractFrom(m, body.result, 1)

\* Market.isMarketOpen
isMarketOpen(m, body) == body

\* The named result left at its zero value.
NilResult == "nil"

\* Line 130, self = market: the named result holds the market from the start.
NamedResult == "market"

\* The deferred function of Fetch: recover() stops a panic and clears errors.
\* [escaped, errors]
Recover(p, errs) ==
    IF p # "none" THEN [escaped |-> FALSE, errors |-> ""]
    ELSE [escaped |-> FALSE, errors |-> errs]

\* Market.Fetch on the reply resp = [stage, status, body]: stage names the
\* step that fails before the body is there ("request", "do", "read"), or is
\* "body"; client.Do gives no error for a status outside 2xx and Fetch never
\* reads response.StatusCode, so status is not looked at.
\* [market, errors, ret, escaped, failure]
Fetch(m, errs, resp) ==
    LET self == NamedResult
        r == IF resp.stage # "body" THEN [market |-> m, panic |-> resp.stage]
             ELSE extract(m, isMarketOpen(m, resp.body))
        d == Recover(r.panic, errs)
    IN [market |-> r.market, errors |-> d.errors,
        ret |-> IF r.panic = "none" THEN "market" ELSE self,
        escaped |-> d.escaped, failure |-> r.panic]

\* ------------------------------------------------------------- the editor
\* The ticker list the dashboard holds when it starts: "A", "AA".
InitialTickers == { << <<65>>, <<65, 65>> >> }

\* What a handler works on: the fields of the editor and what it reaches,
\* with an empty call log.
Cur == [command |-> command, prompt |-> prompt, cursor |-> cursor, input |-> input,
        ops |-> <<>>, term |-> term, tickers |-> tickers]

Store(s) ==
    /\ command' = s.command
    /\ prompt' = s.prompt
    /\ cursor' = s.cursor
    /\ input' = s.input
    /\ ops' = s.ops
    /\ term' = s.term
    /\ tickers' = s.tickers

\* No session made of insertions only is under way.
NotTyping == [only |-> FALSE, runes |-> <<>>]

\* The rune Handle inserts on the event ev (KeySpace, or the default branch
\* with ev.Ch != 0); 0 when it inserts none.
InsertedRune(ev) ==
    IF ev.Key = "KeySpace" THEN 32
    ELSE IF ev.Key \in {"none"} \cup OtherKeys THEN ev.Ch
    ELSE 0

EditorInit ==
    /\ mode = "Idle"
    /\ command = NewLineEditor.command
    /\ prompt = NewLineEditor.prompt
    /\ cursor = NewLineEditor.cursor
    /\ input = NewLineEditor.input
    /\ ops = <<>>
    /\ term = <<-1, -1>>
    /\ tickers \in InitialTickers
    /\ lastKey = "none"
    /\ ret = FALSE
    /\ sessions = 0
    /\ typed = NotTyping

\* A session that goes on with the editor of the session before.
ReusedEditor == [command |-> command, prompt |-> prompt, cursor |-> cursor, input |-> input,
                 ops |-> <<>>, term |-> term, tickers |-> tickers]

\* The editor a new session works on: a new LineEditor replaces the one of the
\* session before (the main loop makes one per '+' / '-' and drops it when
\* Handle returns true).
SessionEditor ==
    [Cur EXCEPT !.command = NewLineEditor.command, !.prompt = NewLineEditor.prompt,
                !.cursor = NewLineEditor.cursor, !.input = NewLineEditor.input]

\* '+' or '-' while no editor is active: new(LineEditor).Initialize(...).Prompt(c)
Start(c) ==
    /\ mode = "Idle"
    /\ sessions < MaxSessions
    /\ Store(Prompt(Initialize(SessionEditor), c))
    /\ mode' = "Capturing"
    /\ sessions' = sessions + 1
    /\ lastKey' = "none"
    /\ ret' = FALSE
    /\ typed' = [only |-> TRUE, runes |-> <<>>]
    /\ UNCHANGED mvars

\* A key event routed to the active editor: lineEditor.Handle(ev); the editor
\* is dropped when Handle returns true.
Key(ev) ==
    /\ mode = "Capturing"
    /\ LET r == Handle(Cur, ev) IN
        /\ Len(r.s.input) <= MaxLen
        /\ Store(r.s)
        /\ ret' = r.ret
        /\ mode' = IF r.ret THEN "Idle" ELSE "Capturing"
    /\ lastKey' = IF ev.Key \in {"KeyEsc", "KeyEnter"} THEN ev.Key ELSE "other"
    /\ typed' = IF typed.only /\ InsertedRune(ev) # 0
                THEN [typed EXCEPT !.runes = Append(@, InsertedRune(ev))]
                ELSE NotTyping
    /\ UNCHANGED sessions
    /\ UNCHANGED mvars

KeyEv(k) == [Key |-> k, Ch |-> 0]

HandleEsc == Key(KeyEv("KeyEsc"))
HandleEnter == Key(KeyEv("KeyEnter"))
HandleBackspace == \E k \in {"KeyBackspace", "KeyBackspace2"} : Key(KeyEv(k))
HandleLeft == \E k \in {"KeyCtrlB", "KeyArrowLeft"} : Key(KeyEv(k))
HandleRight == \E k \in {"KeyCtrlF", "KeyArrowRight"} : Key(KeyEv(k))
HandleCtrlA == Key(KeyEv("KeyCtrlA"))
HandleCtrlE == Key(KeyEv("KeyCtrlE"))
HandleSpace == Key(KeyEv("KeySpace"))
HandleChar(runes) == \E ch \in runes : Key([Key |-> "none", Ch |-> ch])
HandleOther == \E k \in OtherKeys : Key(KeyEv(k))

EditorNext ==
    \/ \E c \in {43, 45} : Start(c)
    \/ HandleEsc
    \/ HandleEnter
    \/ HandleBackspace
    \/ HandleLeft
    \/ HandleRight
    \/ HandleCtrlA
    \/ HandleCtrlE
    \/ HandleSpace
    \/ HandleChar(Printable)
    \/ HandleOther

\* The editor fed a rune of more than one byte, in remove sessions only.
WideNext ==
    \/ Start(45)
    \/ HandleEsc
    \/ HandleEnter
    \/ HandleBackspace
    \/ HandleLeft
    \/ HandleRight
    \/ HandleCtrlA
    \/ HandleCtrlE
    \/ HandleSpace
    \/ HandleChar(WidePrintable)
    \/ HandleOther

\* ------------------------------------------------------------ the fetches
Fields == {"regularMarketPrice", "regularMarketChange", "regularMarketChangePercent"}

Num(v) == [kind |-> "float64", val |-> v]
Str == [kind |-> "string", val |-> 0]

\* Price levels (in thousandths) that tell two replies apart.
Bases == {100005, 20000}

\* Entry k (from 0) of a well-formed reply at price level b; the entries of
\* one reply differ from each other and from those of the other level.
Quote(b, k) ==
    [f \in Fields |->
        IF f = "regularMarketPrice" THEN Num(b + 1000 * k)
        ELSE IF f = "regularMarketChange" THEN Num(150 * k - 1004 + (b % 7))
        ELSE Num(70 * k - 333 + (b % 7))]

Quotes(b, n) == [i \in 1..n |-> Quote(b, i - 1)]

\* Entry e without the field f, and with a string in it.
Without(e, f) == [g \in (DOMAIN e) \ {f} |-> e[g]]
Retyped(e, f) == [e EXCEPT ![f] = Str]

\* A reply that reached the client: its HTTP status and its body.
Reply(status, valid, result) ==
    [stage |-> "body", status |-> status, body |-> [valid |-> valid, result |-> result]]

\* A reply with status 200.
Body(valid, result) == Reply(200, valid, result)

\* Statuses outside 2xx that a reply may carry.
ErrorStatuses == {401, 500}

\* Result array lengths tried: none, one short, exact, one more.
Lengths == {0, Len(Slots) - 1, Len(Slots), Len(Slots) + 1}

\* The replies a Fetch may meet.
Replies ==
    {[stage |-> st, status |-> 0, body |-> [valid |-> FALSE, result |-> <<>>]] :
        st \in {"request", "do", "read"}}
    \cup {Body(FALSE, <<>>)}
    \cup {Reply(st, v, <<>>) : st \in ErrorStatuses, v \in BOOLEAN}
    \cup {Reply(st, TRUE, Quotes(b, Len(Slots))) : st \in ErrorStatuses, b \in Bases}
    \cup {Body(TRUE, Quotes(b, n)) : b \in Bases, n \in Lengths}
    \cup {Body(TRUE, [Quotes(b, Len(Slots)) EXCEPT ![k] = Without(@, f)]) :
             b \in Bases, k \in 1..Len(Slots), f \in Fields}
    \cup {Body(TRUE, [Quotes(b, Len(Slots)) EXCEPT ![k] = Retyped(@, f)]) :
             b \in Bases, k \in 1..Len(Slots), f \in Fields}

\* Market.Ok
Ok(errs) == [isHealthy |-> errs = "", message |-> errs]

MarketInit ==
    /\ market = NewMarket.market
    /\ errors = NewMarket.errors
    /\ fetchRet = "none"
    /\ escaped = FALSE
    /\ failure = "none"
    /\ fetches = 0

\* One refresh cycle: market.Fetch() on the reply resp.
FetchStep(resp) ==
    /\ fetches < MaxFetches
    /\ LET r == Fetch(market, errors, resp) IN
        /\ market' = r.market
        /\ errors' = r.errors
        /\ fetchRet' = r.ret
        /\ escaped' = r.escaped
        /\ failure' = r.failure
    /\ fetches' = fetches + 1
    /\ UNCHANGED edvars

MarketNext == \E resp \in Replies : FetchStep(resp)

Init == EditorInit /\ MarketInit

Spec == Init /\ [][EditorNext]_vars

SpecWide == Init /\ [][WideNext]_vars

SpecMarket == Init /\ [][MarketNext]_vars

\* The dashboard as a whole: key events and refresh cycles in any order. The
\* letters typed are cut to one, the separator typed is the space, and the
\* refresh meets a request that fails or a body that is not JSON.
Letters == {97}

TimerReplies == {r \in Replies : r.stage = "do" \/ (r.status = 200 /\ ~r.body.valid)}

DashboardNext ==
    \/ \E c \in {43, 45} : Start(c)
    \/ HandleEsc
    \/ HandleEnter
    \/ HandleBackspace
    \/ HandleLeft
    \/ HandleRight
    \/ HandleCtrlA
    \/ HandleCtrlE
    \/ HandleSpace
    \/ HandleChar(Letters)
    \/ HandleOther
    \/ \E resp \in TimerReplies : FetchStep(resp)

SpecDashboard == Init /\ [][DashboardNext]_vars

\* ============================================================= properties
\* Helpers over the call log of a handler.
OpsNamed(log, name) == {i \in 1..Len(log) : log[i][1] = name}

\* Rows of the quote table (row >= 4) that the log clears.
TableClears(log) == {i \in OpsNamed(log, "ClearLine") : log[i][3] >= 4}
ClearedRows(log) == {log[i][3] : i \in TableClears(log)}

TickerCalls(log) == OpsNamed(log, "AddTickers") \cup OpsNamed(log, "RemoveTickers")

\* A step that starts a session, and one that handles Enter.
StartStep == mode = "Idle" /\ mode' = "Capturing"
EnterStep == mode = "Capturing" /\ lastKey' = "KeyEnter"
FetchDone == fetches' = fetches + 1

\* ---- C1 (as claimed): a Fetch that fails leaves every indicator record as
\* it was before the call.
C1_FailedFetchKeepsRecords ==
    [][(FetchDone /\ failure' # "none") => market' = market]_vars

\* ---- C2: in every state the editor reaches, 0 <= cursor <= len(input)
\* (the length in bytes, as len(self.input) measures it).
C2_CursorInBounds == 0 <= cursor /\ cursor <= Len(input)

\* A key that changed nothing (only the Flush ran) with the cursor at 0 of a
\* buffer of two bytes or more.
C2_Witness ==
    /\ mode = "Capturing" /\ lastKey = "other" /\ ops = << <<"Flush">> >>
    /\ Len(input) >= 2 /\ cursor = 0

\* A buffer that is empty or holds only commas and whitespace.
OnlySeparators(b) == \A i \in 1..Len(b) : IsSeparator(b[i]) \/ (b[i] < 128 /\ IsSpace(b[i]))

\* ---- C3 (as claimed): Enter on a buffer that is empty or holds only commas
\* and whitespace calls neither AddTickers nor RemoveTickers, redraws nothing
\* and clears no table row. (input is the buffer the Enter was handled on.)
C3_ZeroTokenCommitSilent ==
    (lastKey = "KeyEnter" /\ OnlySeparators(input)) =>
        /\ TickerCalls(ops) = {}
        /\ OpsNamed(ops, "Draw") = {}
        /\ TableClears(ops) = {}

\* ---- C4: whatever makes Fetch fail, no panic reaches the caller and the
\* value returned is the market the method was called on.
C4_NoFailureEscapes == fetches > 0 => (~escaped /\ fetchRet = "market")

\* A Fetch that failed on a field type assertion and returned the market.
C4_Witness == failure = "assert" /\ fetchRet = "market" /\ ~escaped

\* ---- C5 (as claimed): after a Fetch that failed, Ok() reports
\* isHealthy = false with a non-empty message.
C5_FailureSetsError ==
    failure # "none" => (~Ok(errors).isHealthy /\ Ok(errors).message # "")

\* ---- C6: on a '-' commit that removes removed > 0 tickers the table is
\* redrawn once, before any row is cleared; the rows cleared are exactly
\* after+5 .. before+4, each once, and row 4 if and only if after = 0; a commit
\* that removes nothing redraws and clears nothing.
C6_RemoveClearsTrailingRows ==
    [][(EnterStep /\ command = 45) =>
        LET tk == tokenize([input |-> input])
            before == Len(tickers)
            removed == RemoveTickers(tickers, tk).removed
            after == before - removed
        IN IF Len(tk) > 0 /\ removed > 0
           THEN /\ Cardinality(OpsNamed(ops', "Draw")) = 1
                /\ \A d \in OpsNamed(ops', "Draw") : \A c \in TableClears(ops') : d < c
                /\ ClearedRows(ops') = ((after + 5)..(before + 4))
                                        \cup (IF after = 0 THEN {4} ELSE {})
                /\ Cardinality({i \in TableClears(ops') : ops'[i][3] >= 5}) = removed
                /\ ClearedRows(ops') \cap (5..(after + 4)) = {}
                /\ Len(tickers') = after
           ELSE OpsNamed(ops', "Draw") = {} /\ TableClears(ops') = {}]_vars

\* A '-' commit that removed two of three tickers: rows 6 and 7 cleared, the
\* header row and the survivor's row 5 kept.
C6_Witness ==
    /\ lastKey = "KeyEnter" /\ command = 45 /\ Len(tickers) = 1
    /\ ClearedRows(ops) = {6, 7}
    /\ OpsNamed(ops, "Draw") # {}

\* ---- C7: every session starts with an empty buffer and the cursor at 0, and
\* what Enter hands to the ticker set is the tokens of the buffer of that
\* session alone.
C7_SessionStartsClean ==
    [][/\ StartStep => (input' = <<>> /\ cursor' = 0)
       /\ EnterStep => \A i \in TickerCalls(ops') :
                          ops'[i][2] = tokenize([input |-> input])]_vars

\* The second session committed an add after the first one had added a
\* ticker of its own.
C7_Witness ==
    /\ sessions = 2 /\ lastKey = "KeyEnter" /\ command = 43
    /\ OpsNamed(ops, "AddTickers") # {}
    /\ Len(tickers) = 4

\* A token that is not empty and holds no comma and no whitespace.
TokenClean(tok) ==
    tok # <<>> /\ \A i \in 1..Len(tok) : ~IsSeparator(tok[i]) /\ ~(tok[i] < 128 /\ IsSpace(tok[i]))

\* ---- C8 (as claimed): no token tokenize returns is empty, and none holds a
\* comma or whitespace.
C8_TokensClean ==
    mode = "Capturing" =>
        LET tk == tokenize([input |-> input]) IN \A i \in 1..Len(tk) : TokenClean(tk[i])

\* The runes a key can insert: ev.Ch, and ' ' for KeySpace.
Typed == Printable \cup WidePrintable \cup {32}

\* insert_character on the buffer "AAPL" with the cursor at 2 and the rune 'X'.
SpliceExample ==
    LET r == insert_character([command |-> 43, prompt |-> prompts(43), cursor |-> 2,
                               input |-> <<65, 65, 80, 76>>, ops |-> <<>>,
                               term |-> <<15, 3>>, tickers |-> <<>>], 88)
    IN r.input = <<65, 65, 88, 80, 76>> /\ r.cursor = 3

\* ---- C9: a key that inserts the rune ch with the buffer b and the cursor c
\* leaves b[0..c) + ch + b[c..) and the cursor c + 1; the buffer grows by the
\* one character (its encoding); "AAPL" with X inserted at 2 is "AAXPL", 3.
C9_InsertSplices ==
    [][(mode = "Capturing" /\ mode' = "Capturing" /\ Len(input') > Len(input)) =>
        /\ \E ch \in Typed :
            /\ input' = SubSeq(input, 1, cursor) \o EncodeRune(ch)
                        \o SubSeq(input, cursor + 1, Len(input))
            /\ Len(input') = Len(input) + Len(EncodeRune(ch))
        /\ cursor' = cursor + 1
        /\ SpliceExample]_vars

\* The two-byte rune U+00E9 inserted in the middle of a buffer: its bytes
\* start where the cursor (one past the insertion point) now is, with text on
\* both sides.
C9_Witness ==
    /\ mode = "Capturing" /\ cursor >= 2 /\ cursor + 1 < Len(input)
    /\ input[cursor] = 195 /\ input[cursor + 1] = 169
    /\ Len(ops) = 3 /\ ops[1] = <<"DrawLine", Len(prompt), 3, input>>

\* ---- C10 (as claimed): after a Fetch that succeeded the Yield record holds
\* name = "10-year Yield".
C10_YieldHasLabel ==
    (fetches > 0 /\ failure = "none") =>
        ("name" \in DOMAIN market["Yield"] /\ market["Yield"]["name"] = "10-year Yield")

\* The place in the log of the call that clears the edit row.
EditRowClears(log) == {i \in OpsNamed(log, "ClearLine") : log[i][2] = 0 /\ log[i][3] = 3}

\* What execute may log: the ticker calls, the redraw and the table rows it clears.
CommandOps(log) == TickerCalls(log) \cup OpsNamed(log, "Draw") \cup TableClears(log)

\* ---- C11: Handle ends the session exactly on Enter and Escape: it returns
\* true, clears the edit row (row 3) and hides the cursor, and on Enter all
\* the command does is logged before the edit row is cleared; after any other
\* key Handle has returned false and the editor is still capturing.
C11_EnterAndEscEndSession ==
    /\ lastKey \in {"KeyEsc", "KeyEnter"} =>
          /\ ret /\ mode = "Idle"
          /\ term = <<-1, -1>>
          /\ Len(ops) >= 3
          /\ EditRowClears(ops) = {Len(ops) - 2}
          /\ OpsNamed(ops, "HideCursor") = {Len(ops) - 1}
          /\ \A i \in CommandOps(ops) : i < Len(ops) - 2
          /\ lastKey = "KeyEsc" => CommandOps(ops) = {}
    /\ lastKey = "other" =>
          /\ ~ret /\ mode = "Capturing"
          /\ EditRowClears(ops) = {} /\ OpsNamed(ops, "HideCursor") = {}
    /\ mode = "Capturing" <=> lastKey \in {"none", "other"} /\ sessions > 0

\* An Enter that changed the ticker set and redrew the table before it
\* cleared the edit row.
C11_Witness ==
    /\ lastKey = "KeyEnter" /\ ret
    /\ OpsNamed(ops, "Draw") # {}
    /\ TableClears(ops) # {}
    /\ EditRowClears(ops) = {Len(ops) - 2}

\* ---- C12: Enter in an add session ('+') whose buffer gives at least one
\* token calls AddTickers exactly once, with the tokens of the buffer in input
\* order; the table is redrawn exactly when AddTickers reports added > 0, and
\* no row of the table (row >= 4) is cleared.
C12_AddCommit ==
    [][(EnterStep /\ command = 43 /\ Len(tokenize(Cur)) > 0) =>
         LET tk == tokenize(Cur)
             r == AddTickers(tickers, tk)
         IN /\ Cardinality(TickerCalls(ops')) = 1
            /\ \A i \in TickerCalls(ops') : ops'[i] = <<"AddTickers", tk>>
            /\ tickers' = r.tickers
            /\ Cardinality(OpsNamed(ops', "Draw")) = IF r.added > 0 THEN 1 ELSE 0
            /\ TableClears(ops') = {}]_vars

\* An add of two tokens that put a new ticker in the set and redrew the table.
C12_Witness ==
    /\ lastKey = "KeyEnter" /\ command = 43
    /\ OpsNamed(ops, "AddTickers") = {1}
    /\ Len(ops[1][2]) >= 2
    /\ OpsNamed(ops, "Draw") = {2}
    /\ Contains(tickers, ops[1][2][1])

\* The order of the indicators as claimed (Dow, Nasdaq, S&P500, Bitcoin, Tokyo,
\* Hong Kong, London, Frankfurt, Yen, Ruble, Pound, Euro, 10-Year-Yield,
\* Silver, Gold), by the names of their records.
FixedOrder ==
    <<"Dow", "Nasdaq", "Sp500", "Btc", "Tokyo", "HongKong", "London", "Frankfurt",
      "Yen", "Rub", "Gbp", "Euro", "Yield", "Silver", "Gold">>

\* The indicator each quoted symbol stands for.
IndicatorOf ==
    [sym \in {RequestSymbols[i] : i \in 1..Len(RequestSymbols)} |->
        CASE sym = "^DJI" -> "Dow" [] sym = "^IXIC" -> "Nasdaq" [] sym = "^GSPC" -> "Sp500"
          [] sym = "BTC-USD" -> "Btc" [] sym = "^N225" -> "Tokyo" [] sym = "^HSI" -> "HongKong"
          [] sym = "^FTSE" -> "London" [] sym = "^GDAXI" -> "Frankfurt" [] sym = "JPY=X" -> "Yen"
          [] sym = "RUB=X" -> "Rub" [] sym = "GBP=X" -> "Gbp" [] sym = "EUR=X" -> "Euro"
          [] sym = "^TNX" -> "Yield" [] sym = "SI=F" -> "Silver" [] sym = "GC=F" -> "Gold"
          [] OTHER -> "none"]

\* The three strings a record shows for the result entry e.
Shown(e) ==
    [k \in {"latest", "change", "percent"} |->
        IF k = "latest" THEN float2Str(e["regularMarketPrice"].val)
        ELSE IF k = "change" THEN float2Str(e["regularMarketChange"].val)
        ELSE float2Str(e["regularMarketChangePercent"].val) \o "%"]

\* The record rec holds latest, change and percent of the entry e.
HoldsEntry(rec, e) ==
    \A k \in {"latest", "change", "percent"} : k \in DOMAIN rec /\ rec[k] = Shown(e)[k]

\* ---- C13: decoding is positional: after a Fetch that succeeded, slot i of
\* the fixed order holds latest, change and percent of result entry i of the
\* reply and of no other entry, for every i in 0..14; the fixed order is the
\* order of the symbols in the request URL.
C13_PositionalDecode ==
    /\ Len(RequestSymbols) = Len(FixedOrder)
    /\ \A i \in 1..Len(FixedOrder) : IndicatorOf[RequestSymbols[i]] = FixedOrder[i]
    /\ (fetches > 0 /\ failure = "none") =>
          \E b \in Bases :
            \A i \in 1..Len(FixedOrder) :
              /\ HoldsEntry(market[FixedOrder[i]], Quote(b, i - 1))
              /\ \A j \in (1..Len(FixedOrder)) \ {i} :
                    ~HoldsEntry(market[FixedOrder[i]], Quote(b, j - 1))

\* A second Fetch succeeded at the other price level and every record shows it.
C13_Witness ==
    /\ fetches = 2 /\ failure = "none"
    /\ market["Dow"]["latest"] = "20.00"
    /\ market["Gold"]["latest"] = "34.00"
    /\ market["Yield"]["latest"] = "32.00"

\* The sequence b without its element at position k (from 1).
RemoveAt(b, k) == [i \in 1..(Len(b) - 1) |-> IF i < k THEN b[i] ELSE b[i + 1]]

\* ---- C14: Backspace with the cursor at c > 0 removes exactly the element
\* at index c-1 of the buffer (in the middle or at the end) and leaves the
\* cursor at c-1; with the cursor at 0 it changes neither buffer nor cursor
\* and draws nothing.
C14_BackspaceDeletesBeforeCursor ==
    [][HandleBackspace =>
         IF cursor > 0
         THEN /\ input' = RemoveAt(input, cursor)
              /\ cursor' = cursor - 1
         ELSE /\ input' = input /\ cursor' = cursor /\ term' = term
              /\ OpsNamed(ops', "DrawLine") = {}
              /\ OpsNamed(ops', "SetCursor") = {}]_vars

\* A Backspace inside the buffer has just redrawn what is left of it.
C14_Witness ==
    /\ mode = "Capturing"
    /\ cursor >= 1 /\ cursor < Len(input)
    /\ OpsNamed(ops, "DrawLine") = {1}
    /\ ops[1][4] = input \o <<32>>

\* The last DrawLine call of a log that has one.
LastDraw(log) ==
    LET d == OpsNamed(log, "DrawLine")
    IN log[CHOOSE i \in d : \A j \in d : j <= i]

\* ---- C15: the terminal stays synchronized with the editor: while a session
\* is capturing, after its start and after every key event the terminal cursor
\* is at column Len(prompt) + cursor on row 3; after every insert the text last
\* drawn on row 3 from column Len(prompt) is the buffer, and after every delete
\* it is the buffer followed by one blank.
C15_TerminalInSync ==
    [][/\ mode' = "Capturing" => term' = <<Len(prompt') + cursor', 3>>
       /\ (mode = "Capturing" /\ Len(input') > Len(input)) =>
             /\ OpsNamed(ops', "DrawLine") # {}
             /\ LastDraw(ops') = <<"DrawLine", Len(prompt'), 3, input'>>
       /\ (mode = "Capturing" /\ Len(input') < Len(input)) =>
             /\ OpsNamed(ops', "DrawLine") # {}
             /\ LastDraw(ops') = <<"DrawLine", Len(prompt'), 3, input' \o <<32>>>>]_vars

\* An insert inside the buffer of an add session: the buffer was drawn and the
\* terminal cursor put after the new character.
C15_Witness ==
    /\ mode = "Capturing" /\ command = 43
    /\ cursor >= 2 /\ cursor < Len(input)
    /\ ops[1] = <<"DrawLine", Len(prompt), 3, input>>
    /\ ops[2] = <<"SetCursor", Len(prompt) + cursor, 3>>
    /\ term = <<Len(prompt) + cursor, 3>>

\* ---- C16 (as claimed): a reply whose HTTP status is outside 2xx makes the
\* Fetch fail as a unit whatever its body: no indicator record changes, even
\* when the body is a well-formed response of 15 entries.
C16_ErrorStatusFailsFetch ==
    [][\A resp \in Replies :
         (FetchStep(resp) /\ resp.stage = "body" /\ resp.status \notin 200..299) =>
             (failure' # "none" /\ market' = market)]_vars

\* ---- C17 (as claimed): the snapshot is updated only from a response of
\* exactly 15 entries: a response with more than 15 entries is a decode failure
\* that changes no record.
C17_LongResponseFails ==
    [][\A resp \in Replies :
         (FetchStep(resp) /\ resp.stage = "body" /\ resp.body.valid
            /\ Len(resp.body.result) > Len(FixedOrder)) =>
             (failure' # "none" /\ market' = market)]_vars

\* ---- C18: the ticker set changes only in the commit step of Enter: the
\* start of a session, printable characters, Space, Backspace, the cursor keys,
\* Escape, unrecognized keys and Market.Fetch call neither AddTickers nor
\* RemoveTickers and leave the ticker set as it was; Escape ends the session
\* without applying the typed buffer.
C18_OnlyEnterChangesTickers ==
    [][~EnterStep =>
         /\ tickers' = tickers
         /\ FetchDone => ops' = ops
         /\ ~FetchDone => TickerCalls(ops') = {}
         /\ (mode = "Capturing" /\ lastKey' = "KeyEsc") => (ret' /\ mode' = "Idle")]_vars

\* Escape ended an add session whose buffer named a new ticker, with a
\* refresh done meanwhile: the ticker set is the initial one.
C18_Witness ==
    /\ lastKey = "KeyEsc" /\ command = 43
    /\ fetches >= 1 /\ fetchRet = "market"
    /\ AddTickers(tickers, tokenize(Cur)).added > 0
    /\ tickers \in InitialTickers

Max(a, b) == IF a >= b THEN a ELSE b
Min(a, b) == IF a <= b THEN a ELSE b

\* Buffer, prompt, command and ticker set are what they were.
BufferKept ==
    /\ input' = input /\ prompt' = prompt /\ command' = command
    /\ tickers' = tickers
    /\ OpsNamed(ops', "DrawLine") = {}

\* ---- C19: the cursor keys change the cursor only: Left / Ctrl-B set it to
\* max(cursor-1, 0), Right / Ctrl-F to min(cursor+1, Len(buffer)), Ctrl-A to
\* 0 and Ctrl-E to Len(buffer); buffer, prompt and command stay as they were.
C19_CursorKeysKeepBuffer ==
    [][/\ HandleLeft => (cursor' = Max(cursor - 1, 0) /\ BufferKept)
       /\ HandleRight => (cursor' = Min(cursor + 1, Len(input)) /\ BufferKept)
       /\ HandleCtrlA => (cursor' = 0 /\ BufferKept)
       /\ HandleCtrlE => (cursor' = Len(input) /\ BufferKept)]_vars

\* Ctrl-E (or Right) has just put the cursor at the end of a buffer of three
\* bytes or more, one of them of a two-byte rune.
C19_Witness ==
    /\ mode = "Capturing"
    /\ Len(input) >= 3 /\ cursor = Len(input)
    /\ \E i \in 1..Len(input) : input[i] > 127
    /\ ops = << <<"SetCursor", Len(prompt) + Len(input), 3>>, <<"Flush">> >>

\* The bytes of the runes rs, in order.
RECURSIVE Encoded(_)
Encoded(rs) == IF rs = <<>> THEN <<>> ELSE EncodeRune(Head(rs)) \o Encoded(Tail(rs))

\* ---- C20 (as claimed): typing any sequence of single-code-point printable
\* characters into an empty buffer without moving the cursor gives, after each
\* keystroke, a buffer equal to those characters in order with the cursor at
\* the end of the buffer, also when a character takes more than one byte.
C20_TypingAppends ==
    (mode = "Capturing" /\ typed.only) =>
        (input = Encoded(typed.runes) /\ cursor = Len(input))

====
